---- MODULE Spec2Model ----
(***************************************************************************)
(* Model of the Nimiqode engine (class Nimiqode): encoding a byte payload   *)
(* into a bit-stream laid out over hexagon rings, and decoding a scanned    *)
(* ring set back into the payload.                                          *)
(*                                                                          *)
(* The engine's collaborators (NimiqodeSpecification, NimiqodeHeader,       *)
(* HexagonRing, BitArray, LDPC, CRC16, Masking) are not part of the         *)
(* sources at hand; they are modelled from their documented contracts.      *)
(* The format parameters the engine treats as opaque (ring capacities and   *)
(* the mask-count rule) are chosen in Init from a small family.             *)
(***************************************************************************)
EXTENDS Integers, Sequences, FiniteSets, TLC

VARIABLES
    cfg,                    \* format parameters: ring geometry and mask-count rule
    pc,                     \* position of the encode / scan / decode pipeline
    err,                    \* error thrown by the constructor, "none" if none
    payload,                \* encoder's this._payload (sequence of bytes)
    preliminaryErrorCorrectionLength,
    hexagonRings,           \* encoder's this._hexagonRings
    totalBits,              \* running total of _createHexagonRings
    data,                   \* encoder's this._data (sequence of bits)
    errorCorrectionLength,  \* final error correction length of the encoder
    hexRingMasks,           \* masks returned by the encoder's _maskHexagonRings
    maskWindows,            \* sub-ranges visited by the last _maskHexagonRings
    ringData,               \* [start, end) view assigned to each encoder ring
    scan,                   \* what acquisition did: removed ring, flipped bit
    scanRings,              \* decoder's hexagonRings argument
    scanData,               \* decoder's data argument (this._data)
    hdr,                    \* header fields read by the decoder
    encodedPayload,         \* decoder's payload+parity bit array
    decoded,                \* decoder's this._payload
    args                    \* arguments of the encoding constructor call

vars == << cfg, pc, err, payload, preliminaryErrorCorrectionLength, hexagonRings,
           totalBits, data, errorCorrectionLength, hexRingMasks, maskWindows,
           ringData, scan, scanRings, scanData, hdr, encodedPayload, decoded, args >>

----------------------------------------------------------------------------
(* Bounds of the model *)

MaxPayloadBytes == 3
MaxRings == 6

(* Payload bytes are drawn from this set. *)
ByteValues == {0, 165}

(* Error correction factors are the rationals num / FactorDen. *)
FactorDen == 2
FactorNums == {-1, 0, 1, 2, 3}

----------------------------------------------------------------------------
(* NimiqodeSpecification *)

CURRENT_VERSION == 0
MAX_FACTOR_ERROR_CORRECTION_DATA == 1
HEADER_LENGTH_VERSION == 2
HEADER_LENGTH_PAYLOAD_LENGTH == 1
HEADER_LENGTH_ERROR_CORRECTION_LENGTH == 8
HEADER_LENGTH_CHECKSUM == 16
HEADER_LENGTH_HEXRING_MASK == 1

MaskIds == 0 .. (2^HEADER_LENGTH_HEXRING_MASK - 1)
Versions == {0, 1}

(* Ring geometries (capacity of ring 0, capacity growth per ring) and the  *)
(* mask-count rules the format may fix.                                     *)
Geometries == { [base |-> 9, step |-> 6], [base |-> 48, step |-> 8] }
MaskRules == {"perRing", "outerRings"}

----------------------------------------------------------------------------
(* Bit helpers (BitArray) *)

Max(a, b) == IF a > b THEN a ELSE b
Min(a, b) == IF a < b THEN a ELSE b
Xor(a, b) == (a + b) % 2

(* unsigned integer n written in w bits, most significant bit first *)
ToBits(n, w) == [i \in 1..w |-> (n \div (2^(w - i))) % 2]

RECURSIVE FromBits(_)
FromBits(s) ==
    IF Len(s) = 0 THEN 0
    ELSE 2 * FromBits(SubSeq(s, 1, Len(s) - 1)) + s[Len(s)]

(* new BitArray(Uint8Array) and BitArray.toArray() *)
BytesToBits(bytes) ==
    [i \in 1..(8 * Len(bytes)) |->
        (bytes[((i - 1) \div 8) + 1] \div (2^(7 - ((i - 1) % 8)))) % 2]

(* bits set one by one into a BitArray over a Uint8Array of n bytes *)
BitsToBytes(bits, n) ==
    [k \in 1..n |-> FromBits(SubSeq(bits, 8 * (k - 1) + 1, 8 * k))]

(* bit i (0-based) of a BitArray; a bit outside the buffer reads as 0 *)
BitAt(bits, i) == IF i + 1 \in 1..Len(bits) THEN bits[i + 1] ELSE 0

(* new BitArray(bits, start, end): the bits of the half-open range *)
Slice(bits, start, end) == [i \in 1..Max(0, end - start) |-> BitAt(bits, start + i - 1)]

(* setValue over the range starting at start *)
WriteAt(bits, start, src) ==
    [i \in 1..Len(bits) |->
        IF i - start \in 1..Len(src) THEN src[i - start] ELSE bits[i]]

RECURSIVE SumSeq(_)
SumSeq(s) == IF Len(s) = 0 THEN 0 ELSE s[1] + SumSeq(Tail(s))

----------------------------------------------------------------------------
(* CRC16, LDPC, Masking *)

RECURSIVE Crc(_, _)
Crc(bytes, c) ==
    IF Len(bytes) = 0 THEN c
    ELSE Crc(Tail(bytes), (c * 31 + bytes[1] + 1) % 65536)

crc16(bytes) == Crc(bytes, 65535)

(* parity bit i (1-based) of a systematic code over the payload bits *)
Parity(bits, i) ==
    Xor(bits[((i - 1) % Len(bits)) + 1], bits[(i % Len(bits)) + 1])

LDPCEncode(bits, ecLength) ==
    bits \o [i \in 1..Max(0, ecLength) |-> Parity(bits, i)]

(* the recovered payload bits, or "failure" *)
LDPCDecode(received, payloadLength, ecLength) ==
    LET bits == SubSeq(received, 1, payloadLength) IN
    IF Len(received) = payloadLength + ecLength /\ received = LDPCEncode(bits, ecLength)
    THEN bits ELSE "failure"

MaskBit(mask, i) == IF mask = 0 THEN i % 2 ELSE 1

(* Masking.applyMask: xor of the range with the mask's pattern *)
ApplyMask(mask, bits) == [i \in 1..Len(bits) |-> Xor(bits[i], MaskBit(mask, i))]

----------------------------------------------------------------------------
(* HexagonRing and NimiqodeHeader *)

HexRingBitCount(index) == cfg.geometry.base + index * cfg.geometry.step

createHexagonRing(index) == [index |-> index, bitCount |-> HexRingBitCount(index)]

calculateMaskCount(hexRings) ==
    IF cfg.maskRule = "perRing" THEN Len(hexRings) ELSE Max(0, Len(hexRings) - 1)

HeaderFixedLength ==
    HEADER_LENGTH_VERSION + HEADER_LENGTH_PAYLOAD_LENGTH
    + HEADER_LENGTH_ERROR_CORRECTION_LENGTH + HEADER_LENGTH_CHECKSUM

HeaderCalculateLength(maskCount) ==
    HeaderFixedLength + maskCount * HEADER_LENGTH_HEXRING_MASK

RECURSIVE MaskBits(_)
MaskBits(masks) ==
    IF Len(masks) = 0 THEN << >>
    ELSE ToBits(masks[1], HEADER_LENGTH_HEXRING_MASK) \o MaskBits(Tail(masks))

(* The payload length is stored as its byte count minus one, so that the   *)
(* field holds every length the encoder accepts.                            *)
HeaderWrite(version, payloadLength, ecLength, checksum, masks) ==
    ToBits(version, HEADER_LENGTH_VERSION)
    \o ToBits((payloadLength \div 8) - 1, HEADER_LENGTH_PAYLOAD_LENGTH)
    \o ToBits(ecLength, HEADER_LENGTH_ERROR_CORRECTION_LENGTH)
    \o ToBits(checksum, HEADER_LENGTH_CHECKSUM)
    \o MaskBits(masks)

HeaderRead(header, hexRings) ==
    LET o1 == HEADER_LENGTH_VERSION
        o2 == o1 + HEADER_LENGTH_PAYLOAD_LENGTH
        o3 == o2 + HEADER_LENGTH_ERROR_CORRECTION_LENGTH
        o4 == o3 + HEADER_LENGTH_CHECKSUM
        m  == calculateMaskCount(hexRings)
    IN [ version |-> FromBits(Slice(header, 0, o1)),
         payloadLength |-> (FromBits(Slice(header, o1, o2)) + 1) * 8,
         errorCorrectionLength |-> FromBits(Slice(header, o2, o3)),
         checksum |-> FromBits(Slice(header, o3, o4)),
         hexRingMasks |-> [j \in 1..m |->
             FromBits(Slice(header, o4 + (j - 1) * HEADER_LENGTH_HEXRING_MASK,
                                    o4 + j * HEADER_LENGTH_HEXRING_MASK))] ]

NoHeader == [ version |-> 0, payloadLength |-> 0, errorCorrectionLength |-> 0,
              checksum |-> 0, hexRingMasks |-> << >> ]

----------------------------------------------------------------------------
(* Nimiqode: static helpers *)

calculateLength(hexRings, lengthPayload, lengthErrorCorrection) ==
    HeaderCalculateLength(calculateMaskCount(hexRings)) + lengthPayload + lengthErrorCorrection

RingCapacities(hexRings) == [i \in 1..Len(hexRings) |-> hexRings[i].bitCount]

(* assignHexagonRingData: consecutive [start, end) views, in ring order *)
assignHexagonRingData(hexRings) ==
    [i \in 1..Len(hexRings) |->
        [start |-> SumSeq(SubSeq(RingCapacities(hexRings), 1, i - 1)),
         end   |-> SumSeq(SubSeq(RingCapacities(hexRings), 1, i))]]

----------------------------------------------------------------------------
(* Nimiqode._maskHexagonRings *)

(* the ring handled by iteration i (0-based): outermost ring first *)
HexRingForIteration(hexRings, i) == hexRings[Len(hexRings) - i]

(* the given masks taken in list order instead of iteration order *)
GivenMaskAtForward(givenMasks, i) == givenMasks[i + 1]

(* the given mask used by iteration i (0-based) when unmasking *)
GivenMaskAt(givenMasks, i) == givenMasks[Len(givenMasks) - i]

(* start of the sub-range of the ring whose range ends at hexRingEnd *)
HexRingStart(hexRingEnd, bitCount) == Max(0, hexRingEnd - bitCount)

(* the new mask put at the end of the list *)
CollectMaskAtEnd(masks, mask) == masks \o << mask >>

(* masks: the list under construction, with the new mask put in front *)
CollectMask(masks, mask) == << mask >> \o masks

(* The loop from iteration i on.  iterMasks[i + 1] is the mask iteration i  *)
(* uses: the result of Masking.findBestMask, or the given mask.  st holds   *)
(* dataToMask, hexRingEnd, masks and the sub-ranges visited so far.         *)
RECURSIVE MaskLoop(_, _, _, _)
MaskLoop(hexRings, iterMasks, i, st) ==
    IF i >= Len(iterMasks) THEN st
    ELSE LET hexRing == HexRingForIteration(hexRings, i)
             start == HexRingStart(st.hexRingEnd, hexRing.bitCount)
             mask == iterMasks[i + 1]
             masked == ApplyMask(mask, Slice(st.dataToMask, start, st.hexRingEnd))
         IN MaskLoop(hexRings, iterMasks, i + 1,
                [ dataToMask |-> WriteAt(st.dataToMask, start, masked),
                  hexRingEnd |-> st.hexRingEnd - Len(masked),
                  masks |-> CollectMask(st.masks, mask),
                  windows |-> Append(st.windows,
                      [ring |-> hexRing.index, bitCount |-> hexRing.bitCount,
                       start |-> start, end |-> st.hexRingEnd, mask |-> mask]) ])

maskHexagonRings(hexRings, iterMasks, dataToMask) ==
    MaskLoop(hexRings, iterMasks, 0,
        [ dataToMask |-> dataToMask, hexRingEnd |-> Len(dataToMask),
          masks |-> << >>, windows |-> << >> ])

(* the masks the iterations use when the caller passes a list of masks *)
GivenIterMasks(givenMasks) == [k \in 1..Len(givenMasks) |-> GivenMaskAt(givenMasks, k - 1)]

----------------------------------------------------------------------------
(* Nimiqode._constructFromPayload *)

Payloads == UNION { [1..n -> ByteValues] : n \in 0..MaxPayloadBytes }

(* the byte length compared with the limit in bits *)
PayloadTooLongBytesVsBits(bytes) ==
    Len(bytes) > (2^HEADER_LENGTH_PAYLOAD_LENGTH) * 8

PayloadTooLong(bytes) ==
    Len(bytes) * 8 > (2^HEADER_LENGTH_PAYLOAD_LENGTH) * 8

IllegalFactor(num) ==
    num < 0 \/ num > MAX_FACTOR_ERROR_CORRECTION_DATA * FactorDen

(* Math.ceil(payloadBits * errorCorrectionFactor) *)
PreliminaryLength(payloadBits, num) ==
    (payloadBits * num + FactorDen - 1) \div FactorDen

ArgumentError(isBytes, bytes, num, version) ==
    IF ~isBytes \/ version # CURRENT_VERSION \/ Len(bytes) = 0 THEN "InvalidArgument"
    ELSE IF IllegalFactor(num) THEN "IllegalFactor"
    ELSE IF PayloadTooLong(bytes) THEN "PayloadTooLarge"
    ELSE "none"

ConstructFromPayload ==
    /\ pc = "new"
    /\ \E isBytes \in BOOLEAN, bytes \in Payloads, num \in FactorNums, version \in Versions :
        LET e == ArgumentError(isBytes, bytes, num, version) IN
        /\ args' = [isBytes |-> isBytes, byteLength |-> Len(bytes), num |-> num,
                    version |-> version]
        /\ err' = e
        /\ IF e # "none"
           THEN /\ pc' = "failed"
                /\ UNCHANGED << payload, preliminaryErrorCorrectionLength >>
           ELSE /\ pc' = "sizing"
                /\ payload' = bytes
                /\ preliminaryErrorCorrectionLength' = PreliminaryLength(8 * Len(bytes), num)
    /\ hexagonRings' = << >>
    /\ totalBits' = 0
    /\ UNCHANGED << cfg, data, errorCorrectionLength, hexRingMasks, maskWindows, ringData,
                    scan, scanRings, scanData, hdr, encodedPayload, decoded >>

(* the loop condition without the minimum of two rings *)
ContinueSizingNoMinimum(total, target, hexagonRingCount) ==
    total < target

(* the loop condition going on when the total equals the target *)
ContinueSizingInclusive(total, target, hexagonRingCount) ==
    total <= target \/ hexagonRingCount < 2

(* the ring's capacity assigned to the total instead of added *)
AddBitsOverwrite(total, bitCount) == bitCount

(* Nimiqode._createHexagonRings: the loop condition and one iteration *)
ContinueSizing(total, target, hexagonRingCount) ==
    total < target \/ hexagonRingCount < 2

AddBits(total, bitCount) == total + bitCount

CreateHexagonRingsStep ==
    /\ pc = "sizing"
    /\ Len(hexagonRings) < MaxRings
    /\ LET hexRing == createHexagonRing(Len(hexagonRings))
           rings == Append(hexagonRings, hexRing)
           total == AddBits(totalBits, hexRing.bitCount)
           target == calculateLength(rings, 8 * Len(payload), preliminaryErrorCorrectionLength)
       IN /\ hexagonRings' = rings
          /\ totalBits' = total
          /\ pc' = IF ContinueSizing(total, target, Len(rings)) THEN "sizing" ELSE "assemble"
    /\ UNCHANGED << cfg, err, payload, preliminaryErrorCorrectionLength, data,
                    errorCorrectionLength, hexRingMasks, maskWindows, ringData, scan,
                    scanRings, scanData, hdr, encodedPayload, decoded, args >>

(* the error correction length without the header subtracted *)
FinalErrorCorrectionLengthNoHeader(dataLength, headerLength, payloadLength) ==
    dataLength - payloadLength

(* the final error correction length *)
FinalErrorCorrectionLength(dataLength, headerLength, payloadLength) ==
    dataLength - headerLength - payloadLength

(* create bit arrays, assemble data *)
AssembleData ==
    /\ pc = "assemble"
    /\ LET payloadBits == BytesToBits(payload)
           dataLength == totalBits
           headerLength == HeaderCalculateLength(calculateMaskCount(hexagonRings))
           ecLength == FinalErrorCorrectionLength(dataLength, headerLength, Len(payloadBits))
           empty == [i \in 1..dataLength |-> 0]
           viewEnd == Min(dataLength, headerLength + Len(payloadBits) + ecLength)
           encodedPayloadBits == LDPCEncode(payloadBits, ecLength)
       IN /\ errorCorrectionLength' = ecLength
          /\ data' = WriteAt(empty, headerLength,
                             Slice(encodedPayloadBits, 0, viewEnd - headerLength))
    /\ pc' = "masking"
    /\ UNCHANGED << cfg, err, payload, preliminaryErrorCorrectionLength, hexagonRings,
                    totalBits, hexRingMasks, maskWindows, ringData, scan, scanRings,
                    scanData, hdr, encodedPayload, decoded, args >>

(* mask, write the header, assign the ring data *)
MaskAndWriteHeader ==
    /\ pc = "masking"
    /\ LET hexRingMaskCount == calculateMaskCount(hexagonRings)
           headerLength == HeaderCalculateLength(hexRingMaskCount)
           viewEnd == Min(Len(data), headerLength + 8 * Len(payload) + errorCorrectionLength)
       IN \E bestMasks \in [1..hexRingMaskCount -> MaskIds] :
            LET r == maskHexagonRings(hexagonRings, bestMasks,
                                      Slice(data, headerLength, viewEnd))
                header == HeaderWrite(CURRENT_VERSION, 8 * Len(payload),
                                      errorCorrectionLength, crc16(payload), r.masks)
            IN /\ hexRingMasks' = r.masks
               /\ maskWindows' = r.windows
               /\ data' = WriteAt(WriteAt(data, headerLength, r.dataToMask), 0,
                                  Slice(header, 0, headerLength))
    /\ ringData' = assignHexagonRingData(hexagonRings)
    /\ pc' = "encoded"
    /\ UNCHANGED << cfg, err, payload, preliminaryErrorCorrectionLength, hexagonRings,
                    totalBits, errorCorrectionLength, scan, scanRings, scanData, hdr,
                    encodedPayload, decoded, args >>

----------------------------------------------------------------------------
(* Acquisition: the caller of the decoding constructor.  It hands over the  *)
(* encoded rings and bit-stream, possibly with one ring missing (the        *)
(* bit-stream is then the concatenation of the remaining rings' data) and   *)
(* possibly with one bit read wrongly.                                      *)

RECURSIVE ConcatRingData(_, _, _)
ConcatRingData(bits, views, skip) ==
    IF Len(views) = 0 THEN << >>
    ELSE (IF skip = 1 THEN << >> ELSE Slice(bits, views[1].start, views[1].end))
         \o ConcatRingData(bits, Tail(views), skip - 1)

RemoveAt(s, k) == [i \in 1..(Len(s) - (IF k \in 1..Len(s) THEN 1 ELSE 0)) |->
                      IF k = 0 \/ i < k THEN s[i] ELSE s[i + 1]]

FlipAt(bits, pos) == [i \in 1..Len(bits) |-> IF i = pos THEN 1 - bits[i] ELSE bits[i]]

EncodedHeaderLength == HeaderCalculateLength(calculateMaskCount(hexagonRings))

FlipPositions ==
    { 1, HEADER_LENGTH_VERSION,
      HEADER_LENGTH_VERSION + HEADER_LENGTH_PAYLOAD_LENGTH,
      HEADER_LENGTH_VERSION + HEADER_LENGTH_PAYLOAD_LENGTH + HEADER_LENGTH_ERROR_CORRECTION_LENGTH,
      HeaderFixedLength, EncodedHeaderLength, EncodedHeaderLength + 1, Len(data) }

Scan ==
    /\ pc = "encoded"
    /\ \E removed \in 0..Len(hexagonRings), flip \in {0} \cup FlipPositions :
        LET bits == ConcatRingData(data, ringData, removed) IN
        /\ flip <= Len(bits)
        /\ scan' = [removed |-> removed, flip |-> flip]
        /\ scanRings' = RemoveAt(hexagonRings, removed)
        /\ scanData' = FlipAt(bits, flip)
    /\ pc' = "scanned"
    /\ UNCHANGED << cfg, err, payload, preliminaryErrorCorrectionLength, hexagonRings,
                    totalBits, data, errorCorrectionLength, hexRingMasks, maskWindows,
                    ringData, hdr, encodedPayload, decoded, args >>

----------------------------------------------------------------------------
(* Nimiqode._constructFromScan *)

ScanHeaderLength == HeaderCalculateLength(calculateMaskCount(scanRings))

(* read the header; a header range that exceeds the bit-stream either is   *)
(* refused by the bit array or reads the missing bits as 0                  *)
ReadHeader ==
    /\ pc = "scanned"
    /\ \/ /\ hdr' = HeaderRead(Slice(scanData, 0, ScanHeaderLength), scanRings)
          /\ pc' = "validate"
          /\ err' = err
       \/ /\ ScanHeaderLength > Len(scanData)
          /\ pc' = "failed"
          /\ err' = "RangeError"
          /\ hdr' = hdr
    /\ UNCHANGED << cfg, payload, preliminaryErrorCorrectionLength, hexagonRings,
                    totalBits, data, errorCorrectionLength, hexRingMasks, maskWindows,
                    ringData, scan, scanRings, scanData, encodedPayload, decoded, args >>

(* the length check made before the version check *)
ScanValidationLengthFirst(version, headerLength, payloadLength, ecLength, dataLength) ==
    IF headerLength + payloadLength + ecLength # dataLength THEN "LengthMismatch"
    ELSE IF version # 0 THEN "UnsupportedVersion"
    ELSE "none"

(* the length check accepting declared lengths that exceed the bit-stream *)
ScanValidationShortOnly(version, headerLength, payloadLength, ecLength, dataLength) ==
    IF version # 0 THEN "UnsupportedVersion"
    ELSE IF headerLength + payloadLength + ecLength < dataLength THEN "LengthMismatch"
    ELSE "none"

(* the checks made on the header that was read, in their order *)
ScanValidation(version, headerLength, payloadLength, ecLength, dataLength) ==
    IF version # 0 THEN "UnsupportedVersion"
    ELSE IF headerLength + payloadLength + ecLength # dataLength THEN "LengthMismatch"
    ELSE "none"

ValidateHeader ==
    /\ pc = "validate"
    /\ LET e == ScanValidation(hdr.version, ScanHeaderLength, hdr.payloadLength,
                               hdr.errorCorrectionLength, Len(scanData))
       IN /\ err' = e
          /\ pc' = IF e = "none" THEN "unmask" ELSE "failed"
    /\ UNCHANGED << cfg, payload, preliminaryErrorCorrectionLength, hexagonRings,
                    totalBits, data, errorCorrectionLength, hexRingMasks, maskWindows,
                    ringData, scan, scanRings, scanData, hdr, encodedPayload, decoded,
                    args >>

(* the decoder's payload+parity bit array taken as a view *)
EncodedPayloadIsView == FALSE

(* whether the decoder's payload+parity bit array is a copy of the range   *)
EncodedPayloadIsCopy == TRUE

(* unmask the payload *)
Unmask ==
    /\ pc = "unmask"
    /\ LET r == maskHexagonRings(scanRings, GivenIterMasks(hdr.hexRingMasks),
                                 Slice(scanData, ScanHeaderLength, Len(scanData)))
       IN /\ encodedPayload' = r.dataToMask
          /\ maskWindows' = r.windows
          /\ scanData' = IF EncodedPayloadIsCopy THEN scanData
                         ELSE WriteAt(scanData, ScanHeaderLength, r.dataToMask)
    /\ pc' = "ldpc"
    /\ UNCHANGED << cfg, err, payload, preliminaryErrorCorrectionLength, hexagonRings,
                    totalBits, data, errorCorrectionLength, hexRingMasks, ringData, scan,
                    scanRings, hdr, decoded, args >>

(* decode the payload and compare the checksum *)
DecodePayload ==
    /\ pc = "ldpc"
    /\ LET payloadBits == LDPCDecode(encodedPayload, hdr.payloadLength,
                                     hdr.errorCorrectionLength)
       IN IF payloadBits = "failure"
          THEN /\ err' = "FecDecodeFailure"
               /\ pc' = "failed"
               /\ decoded' = decoded
          ELSE LET bytes == BitsToBytes(payloadBits, hdr.payloadLength \div 8) IN
               /\ decoded' = bytes
               /\ IF crc16(bytes) # hdr.checksum
                  THEN err' = "ChecksumMismatch" /\ pc' = "failed"
                  ELSE err' = err /\ pc' = "decoded"
    /\ UNCHANGED << cfg, payload, preliminaryErrorCorrectionLength, hexagonRings,
                    totalBits, data, errorCorrectionLength, hexRingMasks, maskWindows,
                    ringData, scan, scanRings, scanData, hdr, encodedPayload, args >>

----------------------------------------------------------------------------

Init ==
    /\ cfg \in [geometry : Geometries, maskRule : MaskRules]
    /\ pc = "new"
    /\ err = "none"
    /\ payload = << >>
    /\ preliminaryErrorCorrectionLength = 0
    /\ hexagonRings = << >>
    /\ totalBits = 0
    /\ data = << >>
    /\ errorCorrectionLength = 0
    /\ hexRingMasks = << >>
    /\ maskWindows = << >>
    /\ ringData = << >>
    /\ scan = [removed |-> 0, flip |-> 0]
    /\ scanRings = << >>
    /\ scanData = << >>
    /\ hdr = NoHeader
    /\ encodedPayload = << >>
    /\ decoded = << >>
    /\ args = [isBytes |-> TRUE, byteLength |-> 0, num |-> 0, version |-> 0]

Next ==
    \/ ConstructFromPayload
    \/ CreateHexagonRingsStep
    \/ AssembleData
    \/ MaskAndWriteHeader
    \/ Scan
    \/ ReadHeader
    \/ ValidateHeader
    \/ Unmask
    \/ DecodePayload

Spec == Init /\ [][Next]_vars

(* _createHexagonRings runs synchronously: an iteration of its loop that    *)
(* can be taken is taken                                                    *)
FairSpec == Init /\ [][Next]_vars /\ WF_vars(CreateHexagonRingsStep)

TypeOK ==
    /\ pc \in {"new", "sizing", "assemble", "masking", "encoded", "scanned",
               "validate", "unmask", "ldpc", "decoded", "failed"}
    /\ err \in {"none", "InvalidArgument", "IllegalFactor", "PayloadTooLarge",
                "RangeError", "UnsupportedVersion", "LengthMismatch",
                "FecDecodeFailure", "ChecksumMismatch"}

----------------------------------------------------------------------------
(* Phases *)

DecodeErrors == {"RangeError", "UnsupportedVersion", "LengthMismatch",
                 "FecDecodeFailure", "ChecksumMismatch"}

DecodeFailed == pc = "failed" /\ err \in DecodeErrors

(* _createHexagonRings has returned *)
Sized == pc \in {"assemble", "masking", "encoded", "scanned", "validate", "unmask",
                 "ldpc", "decoded"} \/ DecodeFailed

(* _constructFromPayload has returned its instance *)
Encoded == pc \in {"encoded", "scanned", "validate", "unmask", "ldpc", "decoded"}
           \/ DecodeFailed

(* _constructFromScan has returned or thrown *)
DecodeDone == pc = "decoded" \/ DecodeFailed

FaithfulScan == scan.removed = 0 /\ scan.flip = 0

PayloadBits == 8 * Len(payload)

(* summed capacity of the first k rings *)
Capacity(hexRings, k) == SumSeq(SubSeq(RingCapacities(hexRings), 1, k))

EncodedRegion == Slice(data, EncodedHeaderLength, Len(data))

----------------------------------------------------------------------------
(* C1: a faithful scan of an encoded payload decodes without error to the   *)
(* payload that was encoded, byte for byte.                                 *)
RoundTrip ==
    (Encoded /\ FaithfulScan) =>
        /\ ~DecodeFailed
        /\ pc = "decoded" => (err = "none" /\ decoded = payload)

RoundTripWitness ==
    /\ pc = "decoded" /\ FaithfulScan /\ decoded = payload
    /\ Len(payload) = 2 /\ payload[1] # payload[2]
    /\ preliminaryErrorCorrectionLength > 0
    /\ \E i, j \in 1..Len(hexRingMasks) : hexRingMasks[i] # hexRingMasks[j]

(* C2: the summed ring capacity equals header length + payload bits + the   *)
(* error correction length that is written into the header.                 *)
CapacityExact ==
    /\ pc = "masking" =>
          Capacity(hexagonRings, Len(hexagonRings))
              = EncodedHeaderLength + PayloadBits + errorCorrectionLength
    /\ Encoded =>
          /\ Capacity(hexagonRings, Len(hexagonRings))
                = EncodedHeaderLength + PayloadBits + errorCorrectionLength
          /\ Len(data) = Capacity(hexagonRings, Len(hexagonRings))
          /\ HeaderRead(Slice(data, 0, EncodedHeaderLength), hexagonRings).errorCorrectionLength
                = errorCorrectionLength
          /\ errorCorrectionLength >= preliminaryErrorCorrectionLength

CapacityExactWitness ==
    /\ pc = "encoded"
    /\ errorCorrectionLength > preliminaryErrorCorrectionLength
    /\ preliminaryErrorCorrectionLength > 0

(* C3: an encoded ring set has at least two rings.                         *)
RingMinimum == Sized => Len(hexagonRings) >= 2

RingMinimumWitness ==
    /\ pc = "encoded" /\ Len(hexagonRings) = 2
    /\ hexagonRings[1].bitCount >=
          calculateLength(SubSeq(hexagonRings, 1, 1), PayloadBits,
                          preliminaryErrorCorrectionLength)

RemovedRingBeyondHeader ==
    /\ scan.removed \in 1..Len(ringData)
    /\ ringData[scan.removed].start >= EncodedHeaderLength

OtherArgumentsValid ==
    args.isBytes /\ args.version = CURRENT_VERSION /\ ~IllegalFactor(args.num)

PayloadLengthFieldMax == 2^HEADER_LENGTH_PAYLOAD_LENGTH - 1

(* C5 as stated: a payload whose bit length exceeds the largest value of    *)
(* the payload length field is refused with PayloadTooLarge, and every      *)
(* accepted payload has a bit length that fits the field.                   *)
PayloadBitsFitField ==
    /\ (pc # "new" /\ OtherArgumentsValid /\ 8 * args.byteLength > PayloadLengthFieldMax)
          => (pc = "failed" /\ err = "PayloadTooLarge")
    /\ (pc \notin {"new", "failed"} \/ DecodeFailed) => PayloadBits <= PayloadLengthFieldMax

(* C5 amended: a payload of more than 2^HEADER_LENGTH_PAYLOAD_LENGTH bytes  *)
(* is refused with PayloadTooLarge when the other arguments are valid, and  *)
(* every accepted payload has a byte length whose predecessor fits the      *)
(* field.                                                                   *)
PayloadBytesFitField ==
    /\ (pc # "new" /\ OtherArgumentsValid /\ args.byteLength - 1 > PayloadLengthFieldMax)
          => (pc = "failed" /\ err = "PayloadTooLarge")
    /\ (pc \notin {"new", "failed"} \/ DecodeFailed) =>
          /\ Len(payload) = args.byteLength
          /\ Len(payload) - 1 <= PayloadLengthFieldMax

PayloadTooLargeWitness ==
    /\ pc = "failed" /\ err = "PayloadTooLarge"
    /\ args.byteLength = 2^HEADER_LENGTH_PAYLOAD_LENGTH + 1

(* C6: a header read with a version other than 0 makes the decoder fail     *)
(* with UnsupportedVersion, before any other check.                         *)
VersionGate ==
    /\ pc \in {"unmask", "ldpc", "decoded"} => hdr.version = 0
    /\ (DecodeFailed /\ err # "RangeError" /\ hdr.version # 0) => err = "UnsupportedVersion"

VersionGateWitness ==
    /\ DecodeFailed /\ err = "UnsupportedVersion" /\ hdr.version # 0
    /\ ScanHeaderLength + hdr.payloadLength + hdr.errorCorrectionLength # Len(scanData)

(* the target length for the first k rings *)
TargetLength(k) ==
    calculateLength(SubSeq(hexagonRings, 1, k), PayloadBits, preliminaryErrorCorrectionLength)

(* C7: ring sizing returns the smallest ring count n >= 2 whose summed      *)
(* capacity reaches the target length of those n rings, and the returned    *)
(* total is that summed capacity.                                           *)
MinimalRingSet ==
    Sized =>
        LET n == Len(hexagonRings) IN
        /\ n >= 2
        /\ Capacity(hexagonRings, n) >= TargetLength(n)
        /\ \A k \in 2..(n - 1) : Capacity(hexagonRings, k) < TargetLength(k)
        /\ totalBits = Capacity(hexagonRings, n)
        /\ \A i \in 1..n : hexagonRings[i] = createHexagonRing(i - 1)

MinimalRingSetWitness ==
    /\ pc = "assemble" /\ Len(hexagonRings) >= 3
    /\ totalBits = TargetLength(Len(hexagonRings))

(* C8: the ring growing loop of ring sizing eventually stops.              *)
SizingTerminates == (pc = "sizing") ~> (pc = "assemble")

SizingTerminatesWitness ==
    /\ pc = "assemble" /\ Len(hexagonRings) >= 4
    /\ TargetLength(Len(hexagonRings)) > TargetLength(2)

(* The sub-ranges of a masking run over the given rings and region length:  *)
(* one per ring for the last m rings, outermost first, each ending where    *)
(* the previous one starts.                                                 *)
WindowsTrailing(hexRings, regionLength, m) ==
    /\ Len(maskWindows) = m
    /\ \A k \in 1..m :
        /\ maskWindows[k].ring = hexRings[Len(hexRings) - k + 1].index
        /\ maskWindows[k].bitCount = hexRings[Len(hexRings) - k + 1].bitCount
        /\ maskWindows[k].end = IF k = 1 THEN regionLength ELSE maskWindows[k - 1].start

WindowStart(regionLength) ==
    IF Len(maskWindows) = 0 THEN regionLength ELSE maskWindows[Len(maskWindows)].start

MaskedCapacity == SumSeq([k \in 1..Len(maskWindows) |-> maskWindows[k].bitCount])

EncoderWindows == pc \in {"encoded", "scanned", "validate", "unmask"}

(* C9 as stated: every masked sub-range is as long as its ring's capacity,  *)
(* so that the window is as long as the masked rings' summed capacity.      *)
MaskWindowFullRings ==
    EncoderWindows =>
        /\ \A k \in 1..Len(maskWindows) :
              maskWindows[k].end - maskWindows[k].start = maskWindows[k].bitCount
        /\ Len(EncodedRegion) - WindowStart(Len(EncodedRegion)) = MaskedCapacity

(* C9 amended: the masked sub-ranges run backward from the end of the       *)
(* payload+parity region, one per ring for the last m rings, each as long   *)
(* as its ring's capacity but cut off at the start of the region; bits      *)
(* before the window are unchanged; m masks are returned, innermost masked  *)
(* ring first.                                                              *)
MaskWindowClamped ==
    /\ EncoderWindows =>
        LET m == calculateMaskCount(hexagonRings)
            region == EncodedRegion
            plain == LDPCEncode(BytesToBits(payload), errorCorrectionLength)
        IN /\ WindowsTrailing(hexagonRings, Len(region), m)
           /\ \A k \in 1..m :
                 maskWindows[k].end - maskWindows[k].start
                     = Min(maskWindows[k].bitCount, maskWindows[k].end)
           /\ Len(region) - WindowStart(Len(region)) = Min(MaskedCapacity, Len(region))
           /\ \A j \in 1..WindowStart(Len(region)) : region[j] = plain[j]
           /\ Len(hexRingMasks) = m
           /\ \A j \in 1..m : hexRingMasks[j] = maskWindows[m - j + 1].mask
    /\ pc = "ldpc" =>
        LET m == calculateMaskCount(scanRings)
            region == Slice(scanData, ScanHeaderLength, Len(scanData))
        IN /\ WindowsTrailing(scanRings, Len(region), m)
           /\ \A k \in 1..m :
                 maskWindows[k].end - maskWindows[k].start
                     = Min(maskWindows[k].bitCount, maskWindows[k].end)
           /\ \A j \in 1..WindowStart(Len(region)) : encodedPayload[j] = region[j]
           /\ \A j \in 1..m : hdr.hexRingMasks[j] = maskWindows[m - j + 1].mask

MaskWindowClampedWitness ==
    /\ pc = "encoded" /\ Len(maskWindows) >= 2
    /\ \E k \in 1..Len(maskWindows) :
          /\ maskWindows[k].end > maskWindows[k].start
          /\ maskWindows[k].end - maskWindows[k].start < maskWindows[k].bitCount
    /\ hexRingMasks[1] # hexRingMasks[Len(hexRingMasks)]

(* the data attached to the scanned rings: views of the scanned bit-stream *)
ScanRingData ==
    [i \in 1..Len(scanRings) |->
        Slice(scanData, assignHexagonRingData(scanRings)[i].start,
                        assignHexagonRingData(scanRings)[i].end)]

(* a step of the decoder leaves the caller's buffers as they are *)
DecodeStepKeepsBuffers ==
    pc \in {"scanned", "validate", "unmask", "ldpc"} =>
        /\ scanData' = scanData
        /\ scanRings' = scanRings
        /\ ScanRingData' = ScanRingData

(* C10: no step of the decoder changes the scanned bit-stream or the data  *)
(* attached to the scanned rings.                                           *)
DecodeKeepsBuffers == [][DecodeStepKeepsBuffers]_vars

DecodeKeepsBuffersWitness ==
    /\ pc = "ldpc"
    /\ encodedPayload # Slice(scanData, ScanHeaderLength, Len(scanData))

====
